---- MODULE Spec2Model ----
(***************************************************************************)
(* Model of trend-monitor.py: the download guard (get_stock_data), the     *)
(* indicator computation (calculate_indicators), the trend classification  *)
(* (analyze_trend) and the main script flow that chains them.              *)
(*                                                                         *)
(* Numbers.  Prices are small integers; every cell of a frame holds the    *)
(* value in fixed point, Scale units per price unit (the program uses      *)
(* 64-bit floats).  Divisions round towards minus infinity.                *)
(*                                                                         *)
(* Cells.  A cell of a frame is NA (pd.NA / NaN) or Some(v).               *)
(***************************************************************************)
EXTENDS Integers, Sequences, FiniteSets, TLC

\* ------------------------------------------------------------------ bounds
MaxLen == 28
TailLen == 2

\* fixed-point scale of a cell value
Scale == 1000

\* ------------------------------------------------------- program constants
MA_WINDOW == 20
EMA_SPAN == 20
MACD_FAST == 12
MACD_SLOW == 26
MACD_SIGNAL == 9
BOLL_K == 2
HISTORY == 5

\* ------------------------------------------------------------------- cells
NA == <<>>
Some(v) == <<v>>
notna(x) == x # NA
Val(x) == x[1]

\* mutant: the indicator columns start at zero instead of absent
NAColumn_zero(n) == [i \in 1..n |-> Some(0)]

\* a column of n absent cells:  df_copy[ind] = pd.NA
NAColumn(n) == [i \in 1..n |-> NA]

\* ------------------------------------------------------------------ frames
\* A frame is [n |-> number of rows, col |-> [column name -> column]].
\* None is the Python None.
None == [n |-> -1, col |-> <<>>]

Columns(df) == DOMAIN df.col

empty(df) == df.n = 0

\* df.copy()
copy(df) == [n |-> df.n, col |-> df.col]

\* df[name] = column
SetColumn(df, name, column) ==
    [n |-> df.n,
     col |-> [c \in Columns(df) \cup {name} |->
                 IF c = name THEN column ELSE df.col[c]]]

\* ----------------------------------------------------------- pandas kernels
\* Series.rolling(window).mean(): absent until the window holds `window`
\* observations.
RECURSIVE SumRange(_, _, _)
SumRange(xs, lo, hi) ==
    IF lo > hi THEN 0 ELSE Val(xs[hi]) + SumRange(xs, lo, hi - 1)

RECURSIVE SumSqRange(_, _, _)
SumSqRange(xs, lo, hi) ==
    IF lo > hi THEN 0
    ELSE (Val(xs[hi]) \div Scale) * (Val(xs[hi]) \div Scale)
         + SumSqRange(xs, lo, hi - 1)

\* mutant: the mean is exposed one bar early (min_periods = window - 1)
RollingMean_early(xs, window) ==
    [i \in 1..Len(xs) |->
        IF i < window - 1 THEN NA
        ELSE Some(SumRange(xs, IF i < window THEN 1 ELSE i - window + 1, i) \div window)]

RollingMean(xs, window) ==
    [i \in 1..Len(xs) |->
        IF i < window THEN NA
        ELSE Some(SumRange(xs, i - window + 1, i) \div window)]

\* integer square root by bisection
RECURSIVE Bisect(_, _, _)
Bisect(v, lo, hi) ==
    IF lo >= hi THEN lo
    ELSE LET mid == (lo + hi + 1) \div 2
         IN IF mid * mid <= v THEN Bisect(v, mid, hi)
            ELSE Bisect(v, lo, mid - 1)

ISqrt(v) == Bisect(v, 0, 46340)

\* Series.rolling(window).std(): sample standard deviation (ddof = 1),
\* sqrt((w * sum(x^2) - sum(x)^2) / (w * (w - 1))), in Scale units.
RollingStd(xs, window) ==
    [i \in 1..Len(xs) |->
        IF i < window THEN NA
        ELSE LET s  == SumRange(xs, i - window + 1, i) \div Scale
                 s2 == SumSqRange(xs, i - window + 1, i)
                 num == window * s2 - s * s
             IN Some(ISqrt(num * ((Scale * Scale) \div (window * (window - 1)))))]

\* Series.ewm(span, adjust=False).mean():
\*   y[0] = x[0];  y[i] = alpha * x[i] + (1 - alpha) * y[i-1],
\*   alpha = 2 / (span + 1);  an absent x before the first observation
\*   gives an absent y.
RECURSIVE EwmAt(_, _, _)
EwmAt(xs, span, i) ==
    IF i = 1 THEN xs[1]
    ELSE LET prev == EwmAt(xs, span, i - 1)
         IN IF prev = NA THEN xs[i]
            ELSE IF xs[i] = NA THEN prev
            ELSE Some((2 * Val(xs[i]) + (span - 1) * Val(prev)) \div (span + 1))

\* mutant: the exponential mean has a warm-up gap of span - 1 bars
Ewm_warmup(xs, span) ==
    [i \in 1..Len(xs) |-> IF i < span THEN NA ELSE EwmAt(xs, span, i)]

Ewm(xs, span) == [i \in 1..Len(xs) |-> EwmAt(xs, span, i)]

\* cellwise a + k * b and a - b on columns; absent if either side is absent
ColAddK(a, k, b) ==
    [i \in 1..Len(a) |->
        IF a[i] = NA \/ b[i] = NA THEN NA ELSE Some(Val(a[i]) + k * Val(b[i]))]

ColSub(a, b) == ColAddK(a, -1, b)

\* Series.notna().any()
AnyNotna(xs) == \E i \in 1..Len(xs) : notna(xs[i])

\* ------------------------------------------------- calculate_indicators
indicators == <<"MA20", "EMA20", "MACD", "Signal", "Upper", "Lower">>

RECURSIVE InitIndicators(_, _)
InitIndicators(df, k) ==
    IF k = 0 THEN df
    ELSE SetColumn(InitIndicators(df, k - 1), indicators[k], NAColumn(df.n))

\* check_data_length(min_length, indicator_name)
check_data_length(df_copy, min_length) == df_copy.n >= min_length

\* lines 113-116
WithMovingAverages(d) ==
    IF check_data_length(d, MA_WINDOW)
    THEN SetColumn(SetColumn(d, "MA20", RollingMean(d.col["Close"], MA_WINDOW)),
                   "EMA20", Ewm(d.col["Close"], EMA_SPAN))
    ELSE d

\* mutant: MACD is gated on the moving-average window instead of the slow span
WithMACD_gate20(d) ==
    IF check_data_length(d, MA_WINDOW)
    THEN LET ema12 == Ewm(d.col["Close"], MACD_FAST)
             ema26 == Ewm(d.col["Close"], MACD_SLOW)
             macd  == ColSub(ema12, ema26)
         IN SetColumn(SetColumn(d, "MACD", macd),
                      "Signal", Ewm(macd, MACD_SIGNAL))
    ELSE d

\* lines 118-123
WithMACD(d) ==
    IF check_data_length(d, MACD_SLOW)
    THEN LET ema12 == Ewm(d.col["Close"], MACD_FAST)
             ema26 == Ewm(d.col["Close"], MACD_SLOW)
             macd  == ColSub(ema12, ema26)
         IN SetColumn(SetColumn(d, "MACD", macd),
                      "Signal", Ewm(macd, MACD_SIGNAL))
    ELSE d

\* lines 125-130
WithBollinger(d) ==
    IF check_data_length(d, MA_WINDOW) /\ AnyNotna(d.col["MA20"])
    THEN LET std == RollingStd(d.col["Close"], MA_WINDOW)
         IN SetColumn(SetColumn(d, "Upper", ColAddK(d.col["MA20"], BOLL_K, std)),
                      "Lower", ColAddK(d.col["MA20"], -BOLL_K, std))
    ELSE d

\* the warnings list the function shows through st.warning
CalcWarnings(df) ==
    IF df = None \/ empty(df) \/ "Close" \notin Columns(df)
    THEN <<"invalid_input">>
    ELSE LET d1 == WithMovingAverages(InitIndicators(copy(df), Len(indicators)))
         IN (IF check_data_length(d1, MA_WINDOW) THEN <<>> ELSE <<"short_MA20_EMA20">>)
            \o (IF check_data_length(d1, MACD_SLOW) THEN <<>> ELSE <<"short_MACD">>)
            \o (IF check_data_length(d1, MA_WINDOW) /\ AnyNotna(d1.col["MA20"])
                THEN <<>>
                ELSE (IF check_data_length(d1, MA_WINDOW) THEN <<>> ELSE <<"short_Bollinger">>)
                     \o (IF ~AnyNotna(d1.col["MA20"]) THEN <<"no_MA20">> ELSE <<>>))

calculate_indicators(df) ==
    IF df = None \/ empty(df) \/ "Close" \notin Columns(df)
    THEN None
    ELSE WithBollinger(WithMACD(WithMovingAverages(
             InitIndicators(copy(df), Len(indicators)))))

\* ------------------------------------------------------- analyze_trend
\* The trend messages of lines 148-211, by name.
Labels == {"Ranging", "BreakoutUp", "BreakoutDown", "GoldenCross", "DeadCross",
           "MacdBullish", "MacdBearish", "Uptrend", "Downtrend"}

\* "上漲" in trend_message / "下跌" in trend_message, from the message texts
HasUp(msg) == msg \in {"BreakoutUp", "GoldenCross", "MacdBullish", "Uptrend"}
HasDown(msg) == msg \in {"BreakoutDown", "DeadCross", "MacdBearish", "Downtrend"}

\* df.iloc[k]: the row as a function from column name to cell
iloc(df, k) == [c \in Columns(df) |-> df.col[c][k]]

\* get_indicator(indicator), a closure over `latest`
get_indicator(latest, indicator) ==
    IF indicator \in DOMAIN latest /\ notna(latest[indicator])
    THEN latest[indicator] ELSE NA

\* float comparisons; a comparison with NaN is False
Gt(a, b) == notna(a) /\ notna(b) /\ Val(a) > Val(b)
Lt(a, b) == notna(a) /\ notna(b) /\ Val(a) < Val(b)
Ge(a, b) == notna(a) /\ notna(b) /\ Val(a) >= Val(b)
Le(a, b) == notna(a) /\ notna(b) /\ Val(a) <= Val(b)

\* mutant: touching a band counts as a breakout (>= and <= for > and <)
BollingerRule_touch(st, close_price, upper_band, lower_band) ==
    IF notna(upper_band) /\ notna(lower_band)
    THEN IF Ge(close_price, upper_band)
         THEN [msg |-> "BreakoutUp", expl |-> Append(st.expl, "breakout_up")]
         ELSE IF Le(close_price, lower_band)
         THEN [msg |-> "BreakoutDown", expl |-> Append(st.expl, "breakout_down")]
         ELSE st
    ELSE st

\* lines 174-181; st is [msg, expl]
BollingerRule(st, close_price, upper_band, lower_band) ==
    IF notna(upper_band) /\ notna(lower_band)
    THEN IF Gt(close_price, upper_band)
         THEN [msg |-> "BreakoutUp", expl |-> Append(st.expl, "breakout_up")]
         ELSE IF Lt(close_price, lower_band)
         THEN [msg |-> "BreakoutDown", expl |-> Append(st.expl, "breakout_down")]
         ELSE st
    ELSE st

\* mutant: the prior values stay those read from `latest` (lines 186-187)
PrevValues_latest(df, latest) ==
    [macd   |-> get_indicator(latest, "MACD"),
     signal |-> get_indicator(latest, "Signal"),
     isNone |-> FALSE]

\* lines 189-190: the second-to-last row's cells, NaN when absent
PrevValues(df, latest) ==
    LET prev_row == iloc(df, df.n - 1)
    IN [macd   |-> IF "MACD" \in DOMAIN prev_row THEN prev_row["MACD"] ELSE NA,
        signal |-> IF "Signal" \in DOMAIN prev_row THEN prev_row["Signal"] ELSE NA,
        isNone |-> "MACD" \notin DOMAIN prev_row \/ "Signal" \notin DOMAIN prev_row]

\* lines 183-203
MACDRule(st, df, latest, macd, signal) ==
    IF notna(macd) /\ notna(signal) /\ df.n >= 2
    THEN LET prev_row == iloc(df, df.n - 1)
             \* lines 186-187 read `latest` through get_indicator
             prev_macd0   == IF "MACD" \in DOMAIN prev_row
                             THEN get_indicator(latest, "MACD") ELSE NA
             prev_signal0 == IF "Signal" \in DOMAIN prev_row
                             THEN get_indicator(latest, "Signal") ELSE NA
             prev == PrevValues(df, latest)
         IN IF notna(prev_macd0) /\ notna(prev_signal0) /\ ~prev.isNone
            THEN IF Gt(macd, signal) /\ Le(prev.macd, prev.signal)
                 THEN [msg |-> "GoldenCross", expl |-> Append(st.expl, "golden_cross")]
                 ELSE IF Lt(macd, signal) /\ Ge(prev.macd, prev.signal)
                 THEN [msg |-> "DeadCross", expl |-> Append(st.expl, "dead_cross")]
                 ELSE IF Gt(macd, signal)
                 THEN [msg |-> "MacdBullish", expl |-> Append(st.expl, "macd_bullish")]
                 ELSE IF Lt(macd, signal)
                 THEN [msg |-> "MacdBearish", expl |-> Append(st.expl, "macd_bearish")]
                 ELSE st
            ELSE st
    ELSE st

\* mutant: the fallback does not look at the message assigned so far
MAGuard_unguarded(msg, ma20, ema20) == notna(ma20) /\ notna(ema20)

\* line 206: the guard of the fallback
MAGuard(msg, ma20, ema20) ==
    notna(ma20) /\ notna(ema20) /\ ~HasUp(msg) /\ ~HasDown(msg)

\* lines 205-212
MARule(st, close_price, ma20, ema20) ==
    IF MAGuard(st.msg, ma20, ema20)
    THEN IF Gt(close_price, ma20) /\ Gt(close_price, ema20)
         THEN [msg |-> "Uptrend", expl |-> Append(st.expl, "ma_up")]
         ELSE IF Lt(close_price, ma20) /\ Lt(close_price, ema20)
         THEN [msg |-> "Downtrend", expl |-> Append(st.expl, "ma_down")]
         ELSE st
    ELSE st

\* Series.is_monotonic_increasing / is_monotonic_decreasing on df["Close"].tail(5)
MonotonicIncreasing(xs) ==
    /\ \A i \in 1..Len(xs) : notna(xs[i])
    /\ \A i \in 1..(Len(xs) - 1) : Val(xs[i]) <= Val(xs[i + 1])

MonotonicDecreasing(xs) ==
    /\ \A i \in 1..Len(xs) : notna(xs[i])
    /\ \A i \in 1..(Len(xs) - 1) : Val(xs[i]) >= Val(xs[i + 1])

\* lines 214-220
HistoryRule(st, df) ==
    IF df.n >= HISTORY
    THEN LET recent_closes == SubSeq(df.col["Close"], df.n - HISTORY + 1, df.n)
         IN IF MonotonicIncreasing(recent_closes)
            THEN [msg |-> st.msg, expl |-> Append(st.expl, "history_up")]
            ELSE IF MonotonicDecreasing(recent_closes)
            THEN [msg |-> st.msg, expl |-> Append(st.expl, "history_down")]
            ELSE st
    ELSE st

\* mutant: the missing close is not checked
CloseMissing_never(close_price) == FALSE

\* line 170: the latest close is unusable
CloseMissing(close_price) == close_price = NA

\* line 152: the message before any rule
DefaultMessage == "Ranging"

\* line 223
Return(st) ==
    [msg |-> st.msg, expl |-> IF st.expl = <<>> THEN <<"no_signal">> ELSE st.expl]

analyze_trend(df) ==
    IF df = None \/ empty(df) \/ "Close" \notin Columns(df)
    THEN [msg |-> "NoData", expl |-> <<"invalid_input">>]
    ELSE LET latest      == iloc(df, df.n)
             close_price == get_indicator(latest, "Close")
             ma20        == get_indicator(latest, "MA20")
             ema20       == get_indicator(latest, "EMA20")
             macd        == get_indicator(latest, "MACD")
             signal      == get_indicator(latest, "Signal")
             upper_band  == get_indicator(latest, "Upper")
             lower_band  == get_indicator(latest, "Lower")
             st0 == [msg |-> DefaultMessage, expl |-> <<>>]
             st1 == BollingerRule(st0, close_price, upper_band, lower_band)
             st2 == MACDRule(st1, df, latest, macd, signal)
             st3 == MARule(st2, close_price, ma20, ema20)
             st4 == HistoryRule(st3, df)
         IN IF CloseMissing(close_price)
            THEN [msg |-> "NoData", expl |-> <<"close_missing">>]
            ELSE Return(st4)

\* ------------------------------------------------------ get_stock_data
\* yf.download either raises or returns a frame; _fetch_data maps a raise,
\* an empty frame and a frame without Close to None (lines 66-82).
get_stock_data(download) ==
    IF download.raised THEN None
    ELSE IF empty(download.data) \/ "Close" \notin Columns(download.data) THEN None
    ELSE download.data

\* ------------------------------------------------------ enumerated inputs
CloseVals == {5, 8, 11}
Shapes == {"flat", "up", "down"}

\* the close of bar i of the leading part of a series
ShapeVal(shape, i) ==
    IF shape = "flat" THEN 8
    ELSE IF shape = "up" THEN 5 + (i \div 4)
    ELSE 12 - (i \div 4)

\* a series of n bars: a leading part of the given shape, then the tail
CloseSeries(n, shape, tail) ==
    [i \in 1..n |->
        IF i > n - TailLen THEN Some(Scale * tail[i - (n - TailLen)])
        ELSE Some(Scale * ShapeVal(shape, i))]

Frame(n, shape, tail, hasClose) ==
    [n |-> n,
     col |-> [c \in (IF hasClose THEN {"Open", "Close"} ELSE {"Open"}) |->
                 CloseSeries(n, shape, tail)]]

Downloads ==
    {[raised |-> TRUE, data |-> None]} \cup
    {[raised |-> FALSE, data |-> Frame(n, shape, tail, hasClose)] :
        n \in 0..MaxLen, shape \in Shapes,
        tail \in [1..TailLen -> CloseVals], hasClose \in BOOLEAN}

\* --------------------------------------------------------------- the script
VARIABLES pc, stock_data, data_with_indicators, trend, shown

vars == <<pc, stock_data, data_with_indicators, trend, shown>>

NoTrend == [msg |-> "", expl |-> <<>>]

\* mutant: the function works on the caller's frame itself
InputAfterCalc_inplace(df, result) == result

\* line 98: the function works on df.copy(); the caller's frame after the
\* call is the frame it passed
InputAfterCalc(df, result) == df

\* analyze_trend only reads df; the caller's frame after the call
InputAfterAnalyze(df) == df

Init ==
    /\ pc = "idle"
    /\ stock_data = None
    /\ data_with_indicators = None
    /\ trend = NoTrend
    /\ shown = <<>>

\* lines 228-229: the button is pressed and the data is fetched
PressFetch ==
    /\ pc = "idle"
    /\ \E download \in Downloads :
          stock_data' = get_stock_data(download)
    /\ data_with_indicators' = None
    /\ trend' = NoTrend
    /\ shown' = <<>>
    /\ pc' = "fetched"

\* line 230
StockDataUsable == stock_data # None /\ ~empty(stock_data)

\* lines 230-231
Calculate ==
    /\ pc = "fetched"
    /\ StockDataUsable
    /\ data_with_indicators' = calculate_indicators(stock_data)
    /\ stock_data' = InputAfterCalc(stock_data, calculate_indicators(stock_data))
    /\ shown' = CalcWarnings(stock_data)
    /\ pc' = "calculated"
    /\ UNCHANGED trend

\* lines 311-313
NoStockData ==
    /\ pc = "fetched"
    /\ ~StockDataUsable
    /\ shown' = <<"no_stock_data">>
    /\ pc' = "idle"
    /\ UNCHANGED <<stock_data, data_with_indicators, trend>>

\* lines 232-310
Render ==
    /\ pc = "calculated"
    /\ IF data_with_indicators # None /\ ~empty(data_with_indicators)
       THEN /\ trend' = analyze_trend(data_with_indicators)
            /\ data_with_indicators' = InputAfterAnalyze(data_with_indicators)
            /\ shown' = shown
       ELSE /\ shown' = Append(shown, "no_indicators")
            /\ UNCHANGED <<trend, data_with_indicators>>
    /\ pc' = "idle"
    /\ UNCHANGED stock_data

Next == PressFetch \/ Calculate \/ NoStockData \/ Render

Spec == Init /\ [][Next]_vars

\* ------------------------------------- analyze_trend on arbitrary tables
\* analyze_trend is a function of any frame; here its argument is drawn
\* from frames of up to two rows whose cells are absent or small values.
CellVals == {NA, Some(1 * Scale), Some(2 * Scale), Some(3 * Scale)}
MacdVals == {NA, Some(0), Some(Scale)}
MaVals == {NA, Some(1 * Scale), Some(3 * Scale)}

AllColumns == {"Close", "MA20", "EMA20", "MACD", "Signal", "Upper", "Lower"}

\* a one-row or two-row table from its latest row and its prior MACD/Signal
Table(n, latest, pm, ps) ==
    [n |-> n,
     col |-> [c \in AllColumns |->
                IF n = 1 THEN <<latest[c]>>
                ELSE <<(IF c = "MACD" THEN pm ELSE IF c = "Signal" THEN ps
                        ELSE latest[c]), latest[c]>>]]

LatestRows ==
    {[c \in AllColumns |->
        CASE c = "Close" -> cl [] c = "Upper" -> up [] c = "Lower" -> lo
          [] c = "MA20" -> ma [] c = "EMA20" -> ema
          [] c = "MACD" -> m [] OTHER -> sg] :
     cl \in CellVals, up \in CellVals, lo \in CellVals,
     ma \in MaVals, ema \in MaVals, m \in MacdVals, sg \in MacdVals}

\* drop one column of a table
DropColumn(df, name) ==
    [n |-> df.n, col |-> [c \in Columns(df) \ {name} |-> df.col[c]]]

ArbitraryTables ==
    {None, [n |-> 0, col |-> [c \in AllColumns |-> <<>>]]} \cup
    {Table(n, latest, pm, ps) :
        n \in 1..2, latest \in LatestRows, pm \in MacdVals, ps \in MacdVals} \cup
    {DropColumn(Table(1, latest, NA, NA), drop) :
        latest \in LatestRows, drop \in {"Close", "MACD"}}

\* a caller has handed analyze_trend a table
InitAnalyze ==
    /\ pc = "called"
    /\ stock_data = None
    /\ data_with_indicators \in ArbitraryTables
    /\ trend = NoTrend
    /\ shown = <<>>

\* analyze_trend returns
ReturnAnalyze ==
    /\ pc = "called"
    /\ trend' = analyze_trend(data_with_indicators)
    /\ data_with_indicators' = InputAfterAnalyze(data_with_indicators)
    /\ pc' = "returned"
    /\ UNCHANGED <<stock_data, shown>>

NextAnalyze == ReturnAnalyze

SpecAnalyze == InitAnalyze /\ [][NextAnalyze]_vars

\* ------------------------------------------------------------- properties
\* the table analyze_trend was last applied to, once it has returned
T == data_with_indicators
Analysed == trend # NoTrend
Calculated == pc = "calculated" /\ T # None

\* cell (c, k) of T is present
Avail(c, k) == /\ T # None
               /\ c \in DOMAIN T.col
               /\ k >= 1 /\ k <= T.n
               /\ T.col[c][k] # <<>>
V(c, k) == T.col[c][k][1]
Last == T.n

MacdAvailBoth ==
    /\ Avail("MACD", Last) /\ Avail("Signal", Last)
    /\ Avail("MACD", Last - 1) /\ Avail("Signal", Last - 1)

GoldenCond == /\ V("MACD", Last - 1) <= V("Signal", Last - 1)
              /\ V("MACD", Last) > V("Signal", Last)
DeadCond == /\ V("MACD", Last - 1) >= V("Signal", Last - 1)
            /\ V("MACD", Last) < V("Signal", Last)

AboveUpper == Avail("Close", Last) /\ Avail("Upper", Last)
              /\ V("Close", Last) > V("Upper", Last)
BelowLower == Avail("Close", Last) /\ Avail("Lower", Last)
              /\ V("Close", Last) < V("Lower", Last)

\* C1: when the latest Close is above the latest Upper band and the last two
\* rows form a golden cross, the returned label is the breakout-up label.
C1_BreakoutOutranksCross ==
    (Analysed /\ AboveUpper /\ MacdAvailBoth /\ GoldenCond)
        => trend.msg = "BreakoutUp"

\* C2 as stated: MACD and Signal are absent at every index below 25 and
\* present at every index from 25 on (index i is row i + 1).
C2_PerIndexGating ==
    Calculated =>
        \A k \in 1..T.n :
            /\ (k - 1 < MACD_SLOW - 1 => ~Avail("MACD", k) /\ ~Avail("Signal", k))
            /\ (k - 1 >= MACD_SLOW - 1 => Avail("MACD", k) /\ Avail("Signal", k))

\* C2 amended: MACD and Signal are gated by the length of the series: absent
\* on every row of a series shorter than 26 bars, present on every row
\* (the first 25 included) of a series of 26 or more bars.
C2_LengthGating ==
    Calculated =>
        \A k \in 1..T.n :
            IF T.n < MACD_SLOW
            THEN ~Avail("MACD", k) /\ ~Avail("Signal", k)
            ELSE Avail("MACD", k) /\ Avail("Signal", k)

C2_Witness ==
    Calculated /\ T.n >= MACD_SLOW /\ Avail("MACD", 1) /\ Avail("Signal", 1)

\* C3 as stated: EMA20 is present on every row of every non-empty series,
\* and EMA20[0] = Close[0].
C3_EMAFromIndex0 ==
    Calculated =>
        /\ \A k \in 1..T.n : Avail("EMA20", k)
        /\ V("EMA20", 1) = V("Close", 1)

\* C3 amended: EMA20 has no warm-up gap once the series has 20 bars: then it
\* is present on every row from the first, with EMA20[0] = Close[0]; on a
\* series shorter than 20 bars it is absent on every row.
C3_EMAGatedByLength ==
    Calculated =>
        IF T.n >= MA_WINDOW
        THEN /\ \A k \in 1..T.n : Avail("EMA20", k)
             /\ V("EMA20", 1) = V("Close", 1)
        ELSE \A k \in 1..T.n : ~Avail("EMA20", k)

C3_Witness ==
    Calculated /\ T.n >= MA_WINDOW /\ Avail("EMA20", 1) /\ ~Avail("MA20", 1)

\* C4: MA20, Upper and Lower are absent on every row of a series shorter
\* than 20 bars; on a longer series they are absent below index 19 and
\* present from index 19 on; a band is present only where MA20 is.
C4_MABandsGating ==
    Calculated =>
        \A k \in 1..T.n :
            /\ (T.n < MA_WINDOW \/ k - 1 < MA_WINDOW - 1) =>
                   ~Avail("MA20", k) /\ ~Avail("Upper", k) /\ ~Avail("Lower", k)
            /\ (T.n >= MA_WINDOW /\ k - 1 >= MA_WINDOW - 1) =>
                   Avail("MA20", k) /\ Avail("Upper", k) /\ Avail("Lower", k)
            /\ (Avail("Upper", k) \/ Avail("Lower", k)) => Avail("MA20", k)

C4_Witness ==
    Calculated /\ T.n > MA_WINDOW
    /\ ~Avail("Upper", MA_WINDOW - 1) /\ Avail("Upper", MA_WINDOW)
    /\ Avail("MA20", T.n)

\* C5: for a non-empty series with a Close column calculate_indicators
\* returns a table with one row per bar, the input columns unchanged and in
\* place, and every indicator it could not compute absent on every row.
C5_DegradeDontFail ==
    pc = "calculated" =>
        /\ T # None
        /\ T.n = stock_data.n
        /\ \A c \in Columns(stock_data) :
               c \in Columns(T) /\ T.col[c] = stock_data.col[c]
        /\ \A k \in 1..Len(indicators) :
               /\ indicators[k] \in Columns(T)
               /\ Len(T.col[indicators[k]]) = T.n
        /\ T.n < MA_WINDOW =>
               \A c \in {"MA20", "EMA20", "Upper", "Lower"} :
                   \A k \in 1..T.n : T.col[c][k] = NA
        /\ T.n < MACD_SLOW =>
               \A c \in {"MACD", "Signal"} : \A k \in 1..T.n : T.col[c][k] = NA

C5_Witness ==
    pc = "calculated" /\ T # None /\ T.n >= 1 /\ T.n < MA_WINDOW
    /\ T.col["MACD"][1] = NA

\* the tags analyze_trend appends for rules 1-2, rule 3 and rule 4
BreakoutTags == {"breakout_up", "breakout_down"}
MacdTags == {"golden_cross", "dead_cross", "macd_bullish", "macd_bearish"}
MaTags == {"ma_up", "ma_down"}

ExplHas(tags) == \E i \in 1..Len(trend.expl) : trend.expl[i] \in tags

LabelOfTag(tag) ==
    CASE tag = "breakout_up" -> "BreakoutUp"
      [] tag = "breakout_down" -> "BreakoutDown"
      [] tag = "golden_cross" -> "GoldenCross"
      [] tag = "dead_cross" -> "DeadCross"
      [] tag = "macd_bullish" -> "MacdBullish"
      [] tag = "macd_bearish" -> "MacdBearish"
      [] tag = "ma_up" -> "Uptrend"
      [] OTHER -> "Downtrend"

\* the label assigned last by rules 1-3, from the explanation they left
LastRule123Label ==
    LET idx == {i \in 1..Len(trend.expl) : trend.expl[i] \in BreakoutTags \cup MacdTags}
        last == CHOOSE i \in idx : \A j \in idx : j <= i
    IN LabelOfTag(trend.expl[last])

\* C6: with no breakout and MACD/Signal present on the last two rows, the
\* label is golden-cross exactly on prior MACD <= Signal and current MACD >
\* Signal, dead-cross exactly on prior MACD >= Signal and current MACD <
\* Signal, otherwise MACD-bullish / MACD-bearish by the current comparison;
\* the prior values are those of the second-to-last row.
C6_MacdRule ==
    (Analysed /\ Avail("Close", Last) /\ ~AboveUpper /\ ~BelowLower /\ MacdAvailBoth)
        => /\ trend.msg = "GoldenCross" <=> GoldenCond
           /\ trend.msg = "DeadCross" <=> DeadCond
           /\ (~GoldenCond /\ ~DeadCond /\ V("MACD", Last) > V("Signal", Last))
                  => trend.msg = "MacdBullish"
           /\ (~GoldenCond /\ ~DeadCond /\ V("MACD", Last) < V("Signal", Last))
                  => trend.msg = "MacdBearish"

C6_Witness ==
    /\ Analysed /\ Avail("Close", Last) /\ ~AboveUpper /\ ~BelowLower
    /\ MacdAvailBoth /\ GoldenCond
    /\ trend.msg = "GoldenCross"

\* C7: the uptrend/downtrend label is returned only when none of rules 1-3
\* assigned a label; when one did, the label is the one it assigned and the
\* explanation carries no line of the moving-average rule.
C7_MAFallback ==
    Analysed =>
        /\ trend.msg \in {"Uptrend", "Downtrend"} => ~ExplHas(BreakoutTags \cup MacdTags)
        /\ ExplHas(BreakoutTags \cup MacdTags) =>
               /\ trend.msg = LastRule123Label
               /\ ~ExplHas(MaTags)

C7_Witness ==
    /\ Analysed /\ ExplHas(BreakoutTags \cup MacdTags)
    /\ Avail("Close", Last) /\ Avail("MA20", Last) /\ Avail("EMA20", Last)
    /\ V("Close", Last) > V("MA20", Last) /\ V("Close", Last) > V("EMA20", Last)
    /\ trend.msg \in {"BreakoutDown", "DeadCross", "MacdBearish"}

\* rules 1-4 as conditions on the table
Rule12Fires == AboveUpper \/ BelowLower
Rule3Fires == /\ MacdAvailBoth
              /\ V("MACD", Last) # V("Signal", Last)
Rule4Fires == /\ ~Rule12Fires /\ ~Rule3Fires
              /\ Avail("MA20", Last) /\ Avail("EMA20", Last)
              /\ \/ V("Close", Last) > V("MA20", Last) /\ V("Close", Last) > V("EMA20", Last)
                 \/ V("Close", Last) < V("MA20", Last) /\ V("Close", Last) < V("EMA20", Last)

\* C8: on a non-empty table whose latest Close is present analyze_trend
\* returns one label of the label set, and the neutral label exactly when
\* none of rules 1-4 fired.
C8_TotalAndDefault ==
    (Analysed /\ Avail("Close", Last)) =>
        /\ trend.msg \in Labels
        /\ trend.msg = "Ranging" <=> (~Rule12Fires /\ ~Rule3Fires /\ ~Rule4Fires)

C8_Witness ==
    /\ Analysed /\ Avail("Close", Last)
    /\ Avail("MACD", Last) /\ Avail("Signal", Last)
    /\ V("MACD", Last) = V("Signal", Last)
    /\ Avail("Upper", Last) /\ ~Rule12Fires
    /\ trend.msg = "Ranging"

====
